---- MODULE Spec2Model ----
(***************************************************************************)
(* A model of the web scraper (web_scraper/main.go, the Discord webhook   *)
(* program, and its e-mail twin): configuration loading, the periodic     *)
(* check cycle (fetch, status gate, parse, whole-page match, link         *)
(* extraction, notification) and the link-relevance algorithm             *)
(* findLinksForText / findClosestLink / resolveURL.                       *)
(*                                                                         *)
(* Strings are modelled by what the code does with them:                  *)
(*   - a text is a sequence of tokens (chunks of characters); ToLower     *)
(*     maps each token to its lower-case form and Contains is the         *)
(*     contiguous-subsequence test of strings.Contains;                   *)
(*   - a URL string is a record [ok, origin, path]: ok says whether       *)
(*     url.Parse accepts it, origin is scheme+host ("" for a reference    *)
(*     without one), path the sequence of path segments.                  *)
(* A document is the parsed tree in document (pre-)order: element 1 is    *)
(* <body>, every other element names its parent; index 0 stands for       *)
(* <html>.  Each element carries one direct text node placed before its   *)
(* child elements.                                                         *)
(***************************************************************************)
EXTENDS Integers, Sequences, FiniteSets, TLC

\* ---------------------------------------------------------------- bounds

\* Most elements below <body> in a page served to the running program.
MaxPageElems == 1

\* Most elements below <body> in a document given to the extractor alone.
MaxElems == 2

\* Most elements below <body> in a document of headings and links, on which
\* the order of extraction is explored.
MaxOrderElems == 4

\* Most elements below <body> in a document of nested containers, on which the
\* ancestor-container lookup is explored.
MaxDeepElems == 4

\* Most elements below <body> in a document whose phrase is split over
\* elements.
MaxSplitElems == 3

\* ------------------------------------------------------------------ text

\* strings.ToLower on one token.
LowerTok(t) ==
    CASE t = "In "   -> "in "
      [] t = "IN "   -> "in "
      [] t = "Stock" -> "stock"
      [] t = "STOCK" -> "stock"
      [] OTHER       -> t

\* strings.ToLower.
ToLower(s) == [k \in 1..Len(s) |-> LowerTok(s[k])]

\* strings.Contains(hay, needle).
Contains(hay, needle) ==
    \E k \in 0..(Len(hay) - Len(needle)) :
        \A j \in 1..Len(needle) : hay[k + j] = needle[j]

\* ------------------------------------------------------------------ URLs

\* The empty Go string, as a URL string.
EmptyStr == [ok |-> TRUE, origin |-> "", path |-> <<>>]

\* strings.Contains(u, "/products/"): a "products" segment with a "/" on both
\* sides, i.e. one that is followed by a further (possibly empty) segment.
IsProductURL(u) == \E k \in 1..(Len(u.path) - 1) : u.path[k] = "products"

\* baseURL.ResolveReference(parsed).String(): a reference with its own origin
\* stands as it is, any other takes the base's origin.
ResolveReference(base, ref) ==
    IF ref.origin # "" THEN ref
    ELSE [ok |-> TRUE, origin |-> base.origin, path |-> ref.path]

\* resolveURL with the resolution step left out: the href goes out as it is.
resolveURLUnresolved(baseURL, href) ==
    IF href = EmptyStr THEN EmptyStr
    ELSE IF ~href.ok THEN EmptyStr
    ELSE href

\* resolveURL.
resolveURL(baseURL, href) ==
    IF href = EmptyStr THEN EmptyStr
    ELSE IF ~href.ok THEN EmptyStr
    ELSE ResolveReference(baseURL, href)

\* ------------------------------------------------------------- documents

\* An attribute value (class, id) is a sequence of words; [attr*='w'].
AttrContains(value, w) == \E k \in 1..Len(value) : value[k] = w

\* Elements of doc; 0 is <html>, whose only child here is <body> (element 1).
Elems(doc) == 1..Len(doc)

RECURSIVE Parents(_, _)
\* s.Parents(): the ancestors of element i, nearest first, <html> last.
Parents(doc, i) ==
    IF i = 0 THEN <<>>
    ELSE <<doc[i].parent>> \o Parents(doc, doc[i].parent)

SeqToSet(s) == {s[k] : k \in 1..Len(s)}

\* The elements s.Find(...) searches: the proper descendants of element i.
Descendants(doc, i) ==
    IF i = 0 THEN Elems(doc)
    ELSE {j \in Elems(doc) : j > i /\ i \in SeqToSet(Parents(doc, j))}

RECURSIVE TextFrom(_, _, _)
\* The direct texts of elements j..Len(doc) that lie in the subtree of i, in
\* document order.
TextFrom(doc, i, j) ==
    IF j > Len(doc) THEN <<>>
    ELSE (IF j = i \/ j \in Descendants(doc, i) THEN doc[j].text ELSE <<>>)
         \o TextFrom(doc, i, j + 1)

\* s.Text(): the combined text of element i and its descendants.
Text(doc, i) == TextFrom(doc, i, i)

\* s.Clone().Children().Remove().End().Text(): the element's own text nodes.
DirectText(doc, i) == doc[i].text

\* s.Is("a").
IsAnchor(doc, i) == i # 0 /\ doc[i].tag = "a"

\* s.Attr("href"): exists.
HasHref(doc, i) == doc[i].hasHref

\* s.Find("a").First(): the first anchor below element i, 0 - which is no
\* anchor - when there is none.
FirstAnchorIn(doc, i) ==
    LET as == {j \in Descendants(doc, i) : IsAnchor(doc, j)}
    IN  IF as = {} THEN 0 ELSE CHOOSE j \in as : \A k \in as : j <= k

\* ---------------------------------------------------- closest-link lookup

RECURSIVE ParentLinkScan(_, _, _, _)
\* The first Parents().Each of findClosestLink: the first ancestor anchor with
\* an href sets foundLink; once it is non-empty the later ancestors are skipped.
ParentLinkScan(doc, ps, baseURL, foundLink) ==
    IF ps = <<>> THEN foundLink
    ELSE LET parent == Head(ps)
             next == IF foundLink # EmptyStr THEN foundLink
                     ELSE IF IsAnchor(doc, parent) /\ HasHref(doc, parent)
                          THEN resolveURL(baseURL, doc[parent].href)
                          ELSE foundLink
         IN  ParentLinkScan(doc, Tail(ps), baseURL, next)

\* s.Find("a").First().Each: the first descendant anchor, when it has an href.
ChildLink(doc, i, baseURL, foundLink) ==
    LET link == FirstAnchorIn(doc, i)
    IN  IF link # 0 /\ HasHref(doc, link)
        THEN resolveURL(baseURL, doc[link].href)
        ELSE foundLink

\* The body of the second Parents().Each: the container's first descendant
\* anchor; a product URL always replaces foundLink, another only an empty one.
ContainerLink(doc, parent, baseURL, foundLink) ==
    LET link == FirstAnchorIn(doc, parent)
    IN  IF link # 0 /\ HasHref(doc, link)
        THEN LET resolved == resolveURL(baseURL, doc[link].href)
             IN  IF IsProductURL(resolved) THEN resolved
                 ELSE IF foundLink = EmptyStr THEN resolved
                 ELSE foundLink
        ELSE foundLink

RECURSIVE ContainerLinkScan(_, _, _, _)
\* The second Parents().Each of findClosestLink.
ContainerLinkScan(doc, ps, baseURL, foundLink) ==
    IF ps = <<>> THEN foundLink
    ELSE LET next == IF foundLink # EmptyStr THEN foundLink
                     ELSE ContainerLink(doc, Head(ps), baseURL, foundLink)
         IN  ContainerLinkScan(doc, Tail(ps), baseURL, next)

\* findClosestLink.
findClosestLink(doc, s, baseURL) ==
    IF IsAnchor(doc, s) /\ HasHref(doc, s)
    THEN resolveURL(baseURL, doc[s].href)
    ELSE LET viaParent == ParentLinkScan(doc, Parents(doc, s), baseURL, EmptyStr)
         IN  IF viaParent # EmptyStr THEN viaParent
             ELSE LET viaChild == ChildLink(doc, s, baseURL, viaParent)
                  IN  IF viaChild # EmptyStr THEN viaChild
                      ELSE ContainerLinkScan(doc, Parents(doc, s), baseURL, viaChild)

\* ------------------------------------------------------- link extraction

\* linkMap, productLinks, otherLinks of findLinksForText.
NoLinks == [linkMap |-> {}, productLinks |-> <<>>, otherLinks |-> <<>>]

\* The append without the linkMap test.
AddLinkNoSeenCheck(acc, link) ==
    IF link # EmptyStr
    THEN IF IsProductURL(link)
         THEN [acc EXCEPT !.linkMap = @ \cup {link},
                          !.productLinks = Append(@, link)]
         ELSE [acc EXCEPT !.linkMap = @ \cup {link},
                          !.otherLinks = Append(@, link)]
    ELSE acc

\* The guarded append every strategy ends with: a non-empty, unseen URL is
\* marked seen and appended to its class's list.
AddLink(acc, link) ==
    IF link # EmptyStr /\ link \notin acc.linkMap
    THEN IF IsProductURL(link)
         THEN [acc EXCEPT !.linkMap = @ \cup {link},
                          !.productLinks = Append(@, link)]
         ELSE [acc EXCEPT !.linkMap = @ \cup {link},
                          !.otherLinks = Append(@, link)]
    ELSE acc

\* Strategy 1, one anchor: its text holds the phrase and it has an href.
DirectAnchorStep(doc, s, base, searchTextLower, acc) ==
    IF Contains(ToLower(Text(doc, s)), searchTextLower) /\ HasHref(doc, s)
    THEN AddLink(acc, resolveURL(base, doc[s].href))
    ELSE acc

RECURSIVE DirectAnchorScan(_, _, _, _, _)
\* Strategy 1: doc.Find("a").Each, from element s on.
DirectAnchorScan(doc, s, base, searchTextLower, acc) ==
    IF s > Len(doc) THEN acc
    ELSE DirectAnchorScan(doc, s + 1, base, searchTextLower,
            IF IsAnchor(doc, s)
            THEN DirectAnchorStep(doc, s, base, searchTextLower, acc)
            ELSE acc)

\* The selector list with the second heading level tried before the first.
productSelectorsH2First == <<"h2", "h1", "h3", "[class*='product']",
                             "[class*='item']", "[id*='product']">>

\* The selector list without the class selector for "item".
productSelectorsNoItemClass == <<"h1", "h2", "h3", "[class*='product']",
                                 "[id*='product']">>

\* productSelectors.
productSelectors == <<"h1", "h2", "h3", "[class*='product']",
                      "[class*='item']", "[id*='product']">>

\* Whether element s matches a selector of productSelectors.
Matches(doc, s, selector) ==
    CASE selector = "[class*='product']" -> AttrContains(doc[s].class, "product")
      [] selector = "[class*='item']"    -> AttrContains(doc[s].class, "item")
      [] selector = "[id*='product']"    -> AttrContains(doc[s].id, "product")
      [] OTHER                           -> doc[s].tag = selector

\* Strategies 2 and 3, one element whose text held the phrase.
ClosestLinkStep(doc, s, base, acc) == AddLink(acc, findClosestLink(doc, s, base))

RECURSIVE SelectorScan(_, _, _, _, _, _)
\* Strategy 2, one selector: doc.Find(selector).Each, from element s on.
SelectorScan(doc, selector, s, base, searchTextLower, acc) ==
    IF s > Len(doc) THEN acc
    ELSE SelectorScan(doc, selector, s + 1, base, searchTextLower,
            IF Matches(doc, s, selector)
               /\ Contains(ToLower(Text(doc, s)), searchTextLower)
            THEN ClosestLinkStep(doc, s, base, acc)
            ELSE acc)

RECURSIVE StructuralScan(_, _, _, _, _)
\* Strategy 2: the selectors in their order.
StructuralScan(doc, selectors, base, searchTextLower, acc) ==
    IF selectors = <<>> THEN acc
    ELSE StructuralScan(doc, Tail(selectors), base, searchTextLower,
            SelectorScan(doc, Head(selectors), 1, base, searchTextLower, acc))

RECURSIVE DirectTextScan(_, _, _, _, _)
\* Strategy 3: doc.Find("*").Each, from element s on (<html> and <head> hold
\* no direct text).
DirectTextScan(doc, s, base, searchTextLower, acc) ==
    IF s > Len(doc) THEN acc
    ELSE DirectTextScan(doc, s + 1, base, searchTextLower,
            IF Contains(ToLower(DirectText(doc, s)), searchTextLower)
            THEN ClosestLinkStep(doc, s, base, acc)
            ELSE acc)

\* The three strategies in turn, on the shared accumulator.
Candidates(doc, base, searchTextLower) ==
    DirectTextScan(doc, 1, base, searchTextLower,
        StructuralScan(doc, productSelectors, base, searchTextLower,
            DirectAnchorScan(doc, 1, base, searchTextLower, NoLinks)))

\* The self-page test: the base URL is a product URL and the body text holds
\* the phrase.
OnProductPage(doc, baseURL, searchTextLower) ==
    IsProductURL(baseURL) /\ Contains(ToLower(Text(doc, 1)), searchTextLower)

\* A return that hands back both lists, product links first.
SelectLinksBoth(acc) == acc.productLinks \o acc.otherLinks

\* The return of findLinksForText after the strategies.
SelectLinks(acc) ==
    IF Len(acc.productLinks) > 0 THEN acc.productLinks ELSE acc.otherLinks

\* findLinksForText without the self-page return.
findLinksForTextNoSelfPage(doc, baseURL, searchTextLower) ==
    IF ~baseURL.ok THEN <<>>
    ELSE SelectLinks(Candidates(doc, baseURL, searchTextLower))

\* findLinksForText.
findLinksForText(doc, baseURL, searchTextLower) ==
    IF ~baseURL.ok THEN <<>>
    ELSE IF OnProductPage(doc, baseURL, searchTextLower) THEN <<baseURL>>
    ELSE SelectLinks(Candidates(doc, baseURL, searchTextLower))

\* ------------------------------------------------ the documents explored

ProductHref    == [ok |-> TRUE, origin |-> "", path |-> <<"products", "7">>]
ProductAbsHref == [ok |-> TRUE, origin |-> "https://x.test",
                   path |-> <<"products", "7">>]
OtherHref      == [ok |-> TRUE, origin |-> "", path |-> <<"about">>]
BadHref        == [ok |-> FALSE, origin |-> "", path |-> <<"%zz">>]

NoText       == <<>>
PhraseText   == <<"In ", "STOCK">>
FirstHalf    == <<"IN ">>
SecondHalf   == <<"stock">>
NoAttr       == <<>>

Elem(tag, hasHref, href, class, id, text) ==
    [tag |-> tag, hasHref |-> hasHref, href |-> href, class |-> class,
     id |-> id, text |-> text]

\* The kinds of element a page is built from.
ElemKinds ==
    {Elem("a", TRUE, h, NoAttr, NoAttr, t) :
        h \in {ProductHref, OtherHref}, t \in {NoText, PhraseText}}
    \cup {Elem("a", TRUE, ProductAbsHref, NoAttr, NoAttr, PhraseText),
          Elem("a", TRUE, BadHref, NoAttr, NoAttr, PhraseText),
          Elem("a", TRUE, EmptyStr, NoAttr, NoAttr, PhraseText),
          Elem("a", FALSE, EmptyStr, NoAttr, NoAttr, PhraseText),
          Elem("a", TRUE, ProductHref, NoAttr, NoAttr, SecondHalf)}
    \cup {Elem(t, FALSE, EmptyStr, NoAttr, NoAttr, PhraseText) :
            t \in {"h1", "h2", "p"}}
    \cup {Elem("div", FALSE, EmptyStr, <<"product", "card">>, NoAttr, NoText),
          Elem("div", FALSE, EmptyStr, <<"item">>, NoAttr, NoText),
          Elem("div", FALSE, EmptyStr, NoAttr, <<"product", "1">>, NoText),
          Elem("div", FALSE, EmptyStr, NoAttr, <<"item", "1">>, FirstHalf)}

\* <body>, the root of every page.
Body == [tag |-> "body", hasHref |-> FALSE, href |-> EmptyStr, class |-> NoAttr,
         id |-> NoAttr, text |-> NoText, parent |-> 0]

\* Where the parser can hang the next element of a document in document order:
\* below the last element or below one of its ancestors, and never an anchor
\* inside an anchor.
ParentChoices(doc, kind) ==
    {p \in ({Len(doc)} \cup SeqToSet(Parents(doc, Len(doc)))) \ {0} :
        kind.tag = "a" =>
            \A q \in {p} \cup SeqToSet(Parents(doc, p)) : ~IsAnchor(doc, q)}

WithParent(kind, p) ==
    [tag |-> kind.tag, hasHref |-> kind.hasHref, href |-> kind.href,
     class |-> kind.class, id |-> kind.id, text |-> kind.text, parent |-> p]

RECURSIVE DocsOfSize(_)
\* The documents with exactly n elements below <body>.
DocsOfSize(n) ==
    IF n = 0 THEN {<<Body>>}
    ELSE {Append(d, WithParent(kind, p)) :
            <<d, kind, p>> \in
                {t \in DocsOfSize(n - 1) \X ElemKinds \X (1..n) :
                    t[3] \in ParentChoices(t[1], t[2])}}

\* The documents with at most n elements below <body>.
DocsUpTo(n) == UNION {DocsOfSize(k) : k \in 0..n}

\* What goquery.NewDocumentFromReader can return for a served page.
PageDocs == DocsUpTo(MaxPageElems)

\* The documents the extractor is explored on.
ExtractDocs == DocsUpTo(MaxElems)

\* A second product href, "/products/8".
Product8Href == [ok |-> TRUE, origin |-> "", path |-> <<"products", "8">>]

\* Headings that hold the phrase and links without text of their own.
OrderKinds ==
    {Elem(t, FALSE, EmptyStr, NoAttr, NoAttr, PhraseText) : t \in {"h1", "h2"}}
    \cup {Elem("a", TRUE, h, NoAttr, NoAttr, NoText) :
            h \in {ProductHref, Product8Href}}

\* A heading that holds the phrase, a plain container, a product link and
\* another link.
DeepKinds ==
    {Elem("h1", FALSE, EmptyStr, NoAttr, NoAttr, PhraseText),
     Elem("div", FALSE, EmptyStr, NoAttr, NoAttr, NoText),
     Elem("a", TRUE, ProductHref, NoAttr, NoAttr, NoText),
     Elem("a", TRUE, OtherHref, NoAttr, NoAttr, NoText)}

\* Containers and a heading that hold the first half of the phrase, a link and
\* a paragraph that hold the second.
SplitKinds ==
    {Elem("div", FALSE, EmptyStr, <<"item">>, NoAttr, FirstHalf),
     Elem("div", FALSE, EmptyStr, NoAttr, <<"item", "1">>, FirstHalf),
     Elem("div", FALSE, EmptyStr, NoAttr, <<"product", "1">>, FirstHalf),
     Elem("h2", FALSE, EmptyStr, NoAttr, NoAttr, FirstHalf),
     Elem("a", TRUE, ProductHref, NoAttr, NoAttr, SecondHalf),
     Elem("p", FALSE, EmptyStr, NoAttr, NoAttr, SecondHalf)}

RECURSIVE DocsOverOfSize(_, _)
\* The documents with exactly n elements below <body>, each of a kind in kinds.
DocsOverOfSize(kinds, n) ==
    IF n = 0 THEN {<<Body>>}
    ELSE {Append(d, WithParent(kind, p)) :
            <<d, kind, p>> \in
                {t \in DocsOverOfSize(kinds, n - 1) \X kinds \X (1..n) :
                    t[3] \in ParentChoices(t[1], t[2])}}

\* The documents with at most n elements below <body>, each of a kind in kinds.
DocsOver(kinds, n) == UNION {DocsOverOfSize(kinds, k) : k \in 0..n}

OrderDocs == DocsOver(OrderKinds, MaxOrderElems)
DeepDocs  == DocsOver(DeepKinds, MaxDeepElems)
SplitDocs == DocsOver(SplitKinds, MaxSplitElems)

\* No document: before the parse of a cycle.
NoDoc == <<>>

\* ---------------------------------------------------------- configuration

PlainBase   == [ok |-> TRUE, origin |-> "https://x.test", path |-> <<>>]
ProductBase == [ok |-> TRUE, origin |-> "https://x.test",
                path |-> <<"products", "42">>]
\* "https://x.test/products/%zz": url.Parse rejects the escape.
BadBase     == [ok |-> FALSE, origin |-> "https://x.test",
                path |-> <<"products", "%zz">>]

\* The environment variables each program reads.
EnvNames(v) ==
    IF v = "webhook"
    THEN {"WEBSITE_URL", "SEARCH_TEXT", "DISCORD_WEBHOOK", "CHECK_INTERVAL"}
    ELSE {"WEBSITE_URL", "SEARCH_TEXT", "SMTP_HOST", "SMTP_PORT", "EMAIL_FROM",
          "EMAIL_TO", "CHECK_INTERVAL"}

\* The empty string, in the representation of each variable's values.
EmptyValue(name) ==
    CASE name = "WEBSITE_URL" -> EmptyStr
      [] name = "SEARCH_TEXT" -> <<>>
      [] OTHER                -> ""

\* The values an environment variable is explored with; the empty value is
\* the unset (or empty) variable.
EnvValues(name) ==
    CASE name = "WEBSITE_URL"    -> {EmptyStr, PlainBase, ProductBase, BadBase}
      [] name = "SEARCH_TEXT"    -> {<<>>, <<"In ", "Stock">>}
      [] name = "CHECK_INTERVAL" -> {"", "abc", "0s"}
      [] name = "SMTP_PORT"      -> {"", "abc"}
      [] OTHER                   -> {"", "set"}

\* What program v can see of variable name: nothing of one it never reads.
EnvChoices(v, name) ==
    IF name \in EnvNames(v) THEN EnvValues(name) ELSE {EmptyValue(name)}

\* The environments of program v.
Envs(v) ==
    [WEBSITE_URL     : EnvChoices(v, "WEBSITE_URL"),
     SEARCH_TEXT     : EnvChoices(v, "SEARCH_TEXT"),
     DISCORD_WEBHOOK : EnvChoices(v, "DISCORD_WEBHOOK"),
     SMTP_HOST       : EnvChoices(v, "SMTP_HOST"),
     SMTP_PORT       : EnvChoices(v, "SMTP_PORT"),
     EMAIL_FROM      : EnvChoices(v, "EMAIL_FROM"),
     EMAIL_TO        : EnvChoices(v, "EMAIL_TO"),
     CHECK_INTERVAL  : EnvChoices(v, "CHECK_INTERVAL")]

\* getEnv: an unset or empty variable takes the default.
getEnv(e, key, defaultValue) ==
    IF e[key] # EmptyValue(key) THEN e[key] ELSE defaultValue

\* time.ParseDuration, in seconds.
ParseDuration(str) ==
    CASE str = "5m" -> [err |-> FALSE, d |-> 300]
      [] str = "0s" -> [err |-> FALSE, d |-> 0]
      [] OTHER      -> [err |-> TRUE, d |-> 0]

\* strconv.Atoi.
Atoi(str) ==
    CASE str = "587" -> [err |-> FALSE, n |-> 587]
      [] OTHER       -> [err |-> TRUE, n |-> 0]

\* Before loadConfig has returned.
NoConfig == [WebsiteURL |-> EmptyStr, SearchText |-> <<>>, CheckInterval |-> 0]

\* The required-setting checks of loadConfig that end in log.Fatal.
MissingRequired(v, e) ==
    \/ getEnv(e, "WEBSITE_URL", EmptyStr) = EmptyStr
    \/ getEnv(e, "SEARCH_TEXT", <<>>) = <<>>
    \/ v = "webhook" /\ getEnv(e, "DISCORD_WEBHOOK", "") = ""
    \/ v = "email" /\ getEnv(e, "SMTP_HOST", "") = ""
    \/ v = "email" /\ getEnv(e, "EMAIL_FROM", "") = ""
    \/ v = "email" /\ getEnv(e, "EMAIL_TO", "") = ""

\* The parse checks with the one of CHECK_INTERVAL left out.
MalformedSettingPortOnly(v, e) ==
    v = "email" /\ Atoi(getEnv(e, "SMTP_PORT", "587")).err

\* The parse checks of loadConfig that end in log.Fatalf.
MalformedSetting(v, e) ==
    \/ v = "email" /\ Atoi(getEnv(e, "SMTP_PORT", "587")).err
    \/ ParseDuration(getEnv(e, "CHECK_INTERVAL", "5m")).err

\* Whether loadConfig exits the process.
ConfigFatal(v, e) == MissingRequired(v, e) \/ MalformedSetting(v, e)

\* The Config loadConfig returns (the fields the check cycle reads).
LoadedConfig(e) ==
    [WebsiteURL    |-> getEnv(e, "WEBSITE_URL", EmptyStr),
     SearchText    |-> getEnv(e, "SEARCH_TEXT", <<>>),
     CheckInterval |-> ParseDuration(getEnv(e, "CHECK_INTERVAL", "5m")).d]

\* ------------------------------------------------------------------ state

VARIABLES
    variant,        \* which program runs: "webhook" or "email"
    env,            \* the environment variables
    config,         \* main's config
    pc,             \* where main is: start, fatal, loaded, fetch, parse,
                    \* match, notify, return, returned, wait, panic
    inProgress,     \* calls of checkWebsite entered and not yet returned
    tickerCreated,  \* time.NewTicker has returned
    tickPending,    \* a tick sits in ticker.C (capacity 1)
    status,         \* resp.StatusCode of this cycle, 0 before a response
    doc,            \* this cycle's parsed document
    matched,        \* this cycle passed the whole-page test
    links,          \* what findLinksForText returned in this cycle
    sent,           \* the links handed to the notifier in this cycle
    fetchAttempts,  \* http.Get calls of this cycle
    notifyCalls,    \* notifier calls of this cycle
    outcome,        \* how this cycle ended, "" while it runs
    everFetched,    \* some http.Get was made since the process started
    everNotified,   \* some notifier call was made since the process started
    prevNotification \* history: the links and the outcome of the last notifier
                    \* call of a cycle that has returned

\* No notifier call in any cycle that has returned.
NoNotification == [links |-> <<>>, outcome |-> ""]

vars == <<variant, env, config, pc, inProgress, tickerCreated, tickPending,
          status, doc, matched, links, sent, fetchAttempts, notifyCalls,
          outcome, everFetched, everNotified, prevNotification>>

cycleVars == <<status, doc, matched, links, sent, fetchAttempts, notifyCalls,
               outcome>>

\* The status codes a fetch is explored with.
Statuses == {200, 204, 404, 503}

\* No response at all: the transport error of http.Get and http.Post.
NoResponse == {0}

\* The status codes the webhook POST is explored with.
PostStatuses == {204, 429}

Init ==
    /\ variant \in {"webhook", "email"}
    /\ env \in Envs(variant)
    /\ config = NoConfig
    /\ pc = "start"
    /\ inProgress = 0
    /\ tickerCreated = FALSE
    /\ tickPending = FALSE
    /\ status = 0
    /\ doc = NoDoc
    /\ matched = FALSE
    /\ links = <<>>
    /\ sent = <<>>
    /\ fetchAttempts = 0
    /\ notifyCalls = 0
    /\ outcome = ""
    /\ everFetched = FALSE
    /\ everNotified = FALSE
    /\ prevNotification = NoNotification

\* ---------------------------------------------------------------- actions

\* main calls loadConfig: log.Fatal on a missing or malformed setting.
LoadConfig ==
    /\ pc = "start"
    /\ IF ConfigFatal(variant, env)
       THEN pc' = "fatal" /\ config' = config
       ELSE pc' = "loaded" /\ config' = LoadedConfig(env)
    /\ UNCHANGED <<variant, env, inProgress, tickerCreated, tickPending,
                   cycleVars, everFetched, everNotified, prevNotification>>

\* Entering checkWebsite: the locals of a fresh call.
EnterCheck ==
    /\ inProgress' = inProgress + 1
    /\ pc' = "fetch"
    /\ status' = 0
    /\ doc' = NoDoc
    /\ matched' = FALSE
    /\ links' = <<>>
    /\ sent' = <<>>
    /\ fetchAttempts' = 0
    /\ notifyCalls' = 0
    /\ outcome' = ""

\* main: the initial check.
InitialCheck ==
    /\ pc = "loaded"
    /\ EnterCheck
    /\ UNCHANGED <<variant, env, config, tickerCreated, tickPending,
                   everFetched, everNotified, prevNotification>>

\* main: time.NewTicker(config.CheckInterval), which panics on a non-positive
\* interval.
NewTicker ==
    /\ pc = "returned"
    /\ IF config.CheckInterval <= 0
       THEN pc' = "panic" /\ tickerCreated' = tickerCreated
       ELSE pc' = "wait" /\ tickerCreated' = TRUE
    /\ UNCHANGED <<variant, env, config, inProgress, tickPending, cycleVars,
                   everFetched, everNotified, prevNotification>>

\* The runtime's timer puts a tick into ticker.C; a tick that finds the
\* channel full is dropped.
Tick ==
    /\ tickerCreated
    /\ ~tickPending
    /\ tickPending' = TRUE
    /\ UNCHANGED <<variant, env, config, pc, inProgress, tickerCreated,
                   cycleVars, everFetched, everNotified, prevNotification>>

\* A loop that takes a tick wherever main is, as if each check ran in a
\* goroutine of its own.
AtTickerLoopAnywhere == tickerCreated

\* Whether main is at "for range ticker.C", free to take a tick.
AtTickerLoop == pc = "wait"

\* main: a tick is received and checkWebsite is called.
ReceiveTick ==
    /\ AtTickerLoop
    /\ tickPending
    /\ tickPending' = FALSE
    /\ EnterCheck
    /\ UNCHANGED <<variant, env, config, tickerCreated, everFetched,
                   everNotified, prevNotification>>

\* A log-and-return of checkWebsite.
EndCycle(how) == pc' = "return" /\ outcome' = how

\* A gate that stops only server errors.
StatusOKBelow500(code) == code < 500

\* Whether the status gate lets the cycle go on.
StatusOK(code) == code = 200

\* checkWebsite: http.Get and the status gate.  The request is not even sent
\* for a URL that url.Parse rejects.
Fetch ==
    /\ pc = "fetch"
    /\ fetchAttempts' = fetchAttempts + 1
    /\ everFetched' = TRUE
    /\ \E r \in NoResponse \cup (IF config.WebsiteURL.ok THEN Statuses ELSE {}) :
        IF r \in NoResponse
        THEN EndCycle("fetch error") /\ status' = status
        ELSE /\ status' = r
             /\ IF StatusOK(r)
                THEN pc' = "parse" /\ outcome' = outcome
                ELSE EndCycle("status error")
    /\ UNCHANGED <<variant, env, config, inProgress, tickerCreated, tickPending,
                   doc, matched, links, sent, notifyCalls, everNotified, prevNotification>>

\* checkWebsite: goquery.NewDocumentFromReader, which fails when the body
\* cannot be read.
Parse ==
    /\ pc = "parse"
    /\ \/ EndCycle("parse error") /\ doc' = doc
       \/ \E d \in PageDocs : doc' = d /\ pc' = "match" /\ outcome' = outcome
    /\ UNCHANGED <<variant, env, config, inProgress, tickerCreated, tickPending,
                   status, matched, links, sent, fetchAttempts, notifyCalls,
                   everFetched, everNotified, prevNotification>>

\* A whole-page test satisfied by any one word of the phrase.
PageMatchesAnyWord(d, searchText) ==
    \E k \in 1..Len(searchText) :
        Contains(ToLower(Text(d, 1)), <<LowerTok(searchText[k])>>)

\* A whole-page test that passes only until the first notifier call of the
\* process, as if matches already reported were remembered.
PageMatchesUntilNotified(d, searchText) ==
    ~everNotified /\ Contains(ToLower(Text(d, 1)), ToLower(searchText))

\* The whole-page test of checkWebsite.
PageMatches(d, searchText) ==
    Contains(ToLower(Text(d, 1)), ToLower(searchText))

\* checkWebsite: the whole-page test and, on a match, findLinksForText.
Match ==
    /\ pc = "match"
    /\ IF PageMatches(doc, config.SearchText)
       THEN /\ matched' = TRUE
            /\ links' = findLinksForText(doc, config.WebsiteURL,
                                         ToLower(config.SearchText))
            /\ pc' = "notify"
            /\ outcome' = outcome
       ELSE /\ EndCycle("no match")
            /\ UNCHANGED <<matched, links>>
    /\ UNCHANGED <<variant, env, config, inProgress, tickerCreated, tickPending,
                   status, doc, sent, fetchAttempts, notifyCalls, everFetched,
                   everNotified, prevNotification>>

\* The hand-over without the fallback to the page's own URL.
NotifyLinksNoFallback(found, websiteURL) == found

\* The links checkWebsite hands to the notifier.
NotifyLinks(found, websiteURL) ==
    IF Len(found) > 0 THEN found ELSE <<websiteURL>>

\* sendDiscordNotification: a 2xx answer to the POST is a success.
WebhookDelivered(r) == r \notin NoResponse /\ r >= 200 /\ r < 300

\* checkWebsite calls the notifier (sendDiscordNotification or
\* sendEmailNotification), which logs a failure and returns.
Notify ==
    /\ pc = "notify"
    /\ sent' = NotifyLinks(links, config.WebsiteURL)
    /\ notifyCalls' = notifyCalls + 1
    /\ everNotified' = TRUE
    /\ \/ /\ variant = "webhook"
          /\ \E r \in NoResponse \cup PostStatuses :
                EndCycle(IF WebhookDelivered(r) THEN "notified"
                         ELSE "notify error")
       \/ /\ variant = "email"
          /\ \E err \in BOOLEAN :
                EndCycle(IF err THEN "notify error" ELSE "notified")
    /\ UNCHANGED <<variant, env, config, inProgress, tickerCreated, tickPending,
                   status, doc, matched, links, fetchAttempts, everFetched,
                   prevNotification>>

\* checkWebsite returns to main, its locals gone: to NewTicker after the
\* initial check, to the ticker loop after a later one.
Return ==
    /\ pc = "return"
    /\ inProgress' = inProgress - 1
    /\ pc' = IF tickerCreated THEN "wait" ELSE "returned"
    /\ status' = 0
    /\ doc' = NoDoc
    /\ matched' = FALSE
    /\ links' = <<>>
    /\ sent' = <<>>
    /\ prevNotification' = IF notifyCalls > 0
                           THEN [links |-> sent, outcome |-> outcome]
                           ELSE prevNotification
    /\ UNCHANGED <<variant, env, config, tickerCreated, tickPending,
                   fetchAttempts, notifyCalls, outcome, everFetched,
                   everNotified>>

Next ==
    \/ LoadConfig
    \/ InitialCheck
    \/ NewTicker
    \/ Tick
    \/ ReceiveTick
    \/ Fetch
    \/ Parse
    \/ Match
    \/ Notify
    \/ Return

Spec == Init /\ [][Next]_vars

\* The scheduling of the running process: main is never suspended for ever,
\* the network calls end (in a response or an error), and a created ticker
\* keeps ticking.
FairSpec ==
    /\ Spec
    /\ WF_vars(LoadConfig) /\ WF_vars(InitialCheck) /\ WF_vars(NewTicker)
    /\ WF_vars(Tick) /\ WF_vars(ReceiveTick)
    /\ WF_vars(Fetch) /\ WF_vars(Parse) /\ WF_vars(Match)
    /\ WF_vars(Notify) /\ WF_vars(Return)

\* ------------------------------------ the extractor on its own

\* The environments of a loaded configuration whose base URL parsed (http.Get
\* accepted it), with the default interval.
ExtractEnvs ==
    {e \in Envs("webhook") : /\ ~ConfigFatal("webhook", e)
                             /\ e.WEBSITE_URL.ok
                             /\ e.CHECK_INTERVAL = ""}

\* checkWebsite right after a successful parse in the initial check, for every
\* document of ExtractDocs.
InitExtract ==
    /\ variant = "webhook"
    /\ env \in ExtractEnvs
    /\ config = LoadedConfig(env)
    /\ pc = "match"
    /\ inProgress = 1
    /\ tickerCreated = FALSE
    /\ tickPending = FALSE
    /\ status = 200
    /\ doc \in ExtractDocs
    /\ matched = FALSE
    /\ links = <<>>
    /\ sent = <<>>
    /\ fetchAttempts = 1
    /\ notifyCalls = 0
    /\ outcome = ""
    /\ everFetched = TRUE
    /\ everNotified = FALSE
    /\ prevNotification = NoNotification

NextExtract ==
    \/ Match
    \/ Notify
    \/ Return

SpecExtract == InitExtract /\ [][NextExtract]_vars

\* The environments of ExtractEnvs whose base URL is no product URL.
PlainEnvs == {e \in ExtractEnvs : ~IsProductURL(e.WEBSITE_URL)}

\* checkWebsite right after a successful parse in the initial check, on base
\* https://x.test, for every document of docs.
InitOn(docs) ==
    /\ variant = "webhook"
    /\ env \in PlainEnvs
    /\ config = LoadedConfig(env)
    /\ pc = "match"
    /\ inProgress = 1
    /\ tickerCreated = FALSE
    /\ tickPending = FALSE
    /\ status = 200
    /\ doc \in docs
    /\ matched = FALSE
    /\ links = <<>>
    /\ sent = <<>>
    /\ fetchAttempts = 1
    /\ notifyCalls = 0
    /\ outcome = ""
    /\ everFetched = TRUE
    /\ everNotified = FALSE
    /\ prevNotification = NoNotification

InitOrder == InitOn(OrderDocs)
SpecOrder == InitOrder /\ [][NextExtract]_vars

InitDeep == InitOn(DeepDocs)
SpecDeep == InitDeep /\ [][NextExtract]_vars

InitSplit == InitOn(SplitDocs)
SpecSplit == InitSplit /\ [][NextExtract]_vars

\* ------------------------------------------------------------ properties

\* The lower-cased phrase of the loaded configuration.
Phrase == ToLower(config.SearchText)

\* The parsed body's full text contains the phrase, compared in lower case.
BodyHasPhrase ==
    doc # NoDoc /\ Contains(ToLower(Text(doc, 1)), Phrase)

\* The positions of checkWebsite.
CyclePositions == {"fetch", "parse", "match", "notify", "return"}

\* Anchor i of the parsed document holds the phrase in its text and has an
\* href that resolves to a product URL.
ProductAnchor(i) ==
    /\ IsAnchor(doc, i) /\ HasHref(doc, i)
    /\ doc[i].href # EmptyStr /\ doc[i].href.ok
    /\ Contains(ToLower(Text(doc, i)), Phrase)
    /\ IsProductURL(ResolveReference(config.WebsiteURL, doc[i].href))

\* C1: in a cycle whose body text does not contain the phrase (in lower
\* case), the notifier is not invoked and no links are produced, in the
\* webhook and in the e-mail program.
C1_NoMatchNoNotify ==
    (doc # NoDoc /\ ~BodyHasPhrase) =>
        /\ notifyCalls = 0
        /\ ~matched
        /\ links = <<>>
        /\ sent = <<>>
        /\ pc # "notify"

\* C1's case: a later cycle of the e-mail program ended "no match" on a body
\* that has text.
C1_Witness ==
    /\ variant = "email"
    /\ tickerCreated
    /\ pc = "return"
    /\ outcome = "no match"
    /\ Text(doc, 1) # <<>>
    /\ notifyCalls = 0

\* C2: a cycle that passed the whole-page test calls the notifier with a
\* non-empty list: the list findLinksForText returned or, when that is empty,
\* exactly the configured URL.
C2_FallbackLaw ==
    /\ (pc = "return" /\ matched) =>
            /\ notifyCalls = 1
            /\ sent # <<>>
            /\ links = <<>> => sent = <<config.WebsiteURL>>
            /\ links # <<>> => sent = links
    /\ (doc # NoDoc /\ notifyCalls > 0) => (matched /\ sent # <<>>)

\* C2's case: the page matched, findLinksForText found nothing, and the
\* notifier got the configured URL alone.
C2_Witness ==
    /\ pc = "return"
    /\ matched
    /\ links = <<>>
    /\ notifyCalls = 1
    /\ config.WebsiteURL = PlainBase
    /\ sent = <<PlainBase>>

\* C3: the list findLinksForText returns holds no URL twice.
C3_NoDuplicateLinks ==
    \A i, j \in DOMAIN links : i # j => links[i] # links[j]

\* C3's case: two anchors with different hrefs that resolve to one URL, both
\* holding the phrase, and the URL returned once.
C3_Witness ==
    /\ pc = "notify"
    /\ ~IsProductURL(config.WebsiteURL)
    /\ \E i, j \in Elems(doc) :
        /\ i < j
        /\ ProductAnchor(i) /\ ProductAnchor(j)
        /\ doc[i].href # doc[j].href
        /\ ResolveReference(config.WebsiteURL, doc[i].href)
            = ResolveReference(config.WebsiteURL, doc[j].href)
        /\ links = <<ResolveReference(config.WebsiteURL, doc[i].href)>>

\* C4: outside the self-page return, findLinksForText returns the product
\* candidates when there is one and the other candidates when there is none,
\* and no returned list has a product URL after another URL.
C4_ClassSelection ==
    (pc \in {"notify", "return"} /\ matched /\ ~IsProductURL(config.WebsiteURL))
    => LET acc == Candidates(doc, config.WebsiteURL, Phrase)
       IN  /\ \A k \in DOMAIN acc.productLinks : IsProductURL(acc.productLinks[k])
           /\ \A k \in DOMAIN acc.otherLinks : ~IsProductURL(acc.otherLinks[k])
           /\ acc.productLinks # <<>> => links = acc.productLinks
           /\ acc.productLinks = <<>> => links = acc.otherLinks
           /\ \A i, j \in DOMAIN links :
                i < j => ~(~IsProductURL(links[i]) /\ IsProductURL(links[j]))

\* C4's case: candidates of both classes were found and only the product
\* ones returned.
C4_Witness ==
    /\ pc = "notify"
    /\ ~IsProductURL(config.WebsiteURL)
    /\ LET acc == Candidates(doc, config.WebsiteURL, Phrase)
       IN  /\ acc.productLinks # <<>>
           /\ acc.otherLinks # <<>>
           /\ links = acc.productLinks

\* C5: with a base URL that contains "/products/" and a body text that holds
\* the phrase, findLinksForText returns the configured URL alone.
C5_SelfPage ==
    (pc \in {"notify", "return"} /\ IsProductURL(config.WebsiteURL)
        /\ BodyHasPhrase)
    => links = <<config.WebsiteURL>>

\* C5's case: on a product page that holds an anchor with the phrase and an
\* href elsewhere, the page's own URL is returned.
C5_Witness ==
    /\ pc = "notify"
    /\ config.WebsiteURL = ProductBase
    /\ \E i \in Elems(doc) :
        /\ IsAnchor(doc, i)
        /\ doc[i].href = OtherHref
        /\ Contains(ToLower(Text(doc, i)), Phrase)
    /\ links = <<ProductBase>>

\* The document <a href="/products/7">... in stock</a>.
C6_ExampleDoc ==
    <<Body,
      WithParent(Elem("a", TRUE, ProductHref, NoAttr, NoAttr, PhraseText), 1)>>

\* "https://x.test/products/7".
C6_ExampleURL ==
    [ok |-> TRUE, origin |-> "https://x.test", path |-> <<"products", "7">>]

\* C6: with a base URL that is no product URL, an anchor whose text holds the
\* phrase and whose href resolves to a product URL has that URL in the list
\* the notifier gets, and every URL of that list is a product URL; the
\* one-anchor document on base https://x.test gives exactly that one URL.
C6_DirectAnchor ==
    (pc = "return" /\ doc # NoDoc /\ ~IsProductURL(config.WebsiteURL)) =>
        /\ \A i \in Elems(doc) :
            ProductAnchor(i) =>
                /\ notifyCalls = 1
                /\ ResolveReference(config.WebsiteURL, doc[i].href)
                    \in SeqToSet(sent)
                /\ \A u \in SeqToSet(sent) : IsProductURL(u)
        /\ (doc = C6_ExampleDoc /\ config.WebsiteURL = PlainBase)
            => sent = <<C6_ExampleURL>>

\* C6's case: the one-anchor document was notified with its resolved URL.
C6_Witness ==
    /\ pc = "return"
    /\ doc = C6_ExampleDoc
    /\ config.WebsiteURL = PlainBase
    /\ notifyCalls = 1
    /\ sent = <<C6_ExampleURL>>

\* A required setting is missing or CHECK_INTERVAL is set and no duration.
C7_SettingInvalid ==
    \/ env.WEBSITE_URL = EmptyStr
    \/ env.SEARCH_TEXT = <<>>
    \/ variant = "webhook" /\ env.DISCORD_WEBHOOK = ""
    \/ variant = "email"
        /\ (env.SMTP_HOST = "" \/ env.EMAIL_FROM = "" \/ env.EMAIL_TO = "")
    \/ env.CHECK_INTERVAL # "" /\ ParseDuration(env.CHECK_INTERVAL).err

\* C7: with a required setting missing or CHECK_INTERVAL malformed the
\* process never gets past startup: no check is entered, nothing is fetched,
\* nobody is notified.
C7_FatalBeforeAnyCycle ==
    C7_SettingInvalid =>
        /\ pc \in {"start", "fatal"}
        /\ inProgress = 0
        /\ ~everFetched
        /\ ~everNotified

\* C7's case: every required setting is there, CHECK_INTERVAL is malformed,
\* and the process has exited in loadConfig.
C7_Witness ==
    /\ pc = "fatal"
    /\ variant = "webhook"
    /\ env.WEBSITE_URL = PlainBase
    /\ env.SEARCH_TEXT # <<>>
    /\ env.DISCORD_WEBHOOK = "set"
    /\ env.CHECK_INTERVAL = "abc"
    /\ ~everFetched

\* The per-cycle errors.
PerCycleErrors == {"fetch error", "status error", "parse error", "notify error"}

\* C8: after a cycle that ended in a per-cycle error the process does not
\* terminate.  (time.NewTicker panics on the interval "0s" right after the
\* initial check, whatever its outcome.)
C8_ProcessSurvivesCycleError ==
    outcome \in PerCycleErrors => pc # "panic"

\* C8, the part that holds: once the ticker exists, a cycle that ended in a
\* per-cycle error is followed by another cycle.
C8_NextCycleOnceTicking ==
    (pc = "return" /\ outcome \in PerCycleErrors /\ config.CheckInterval > 0)
        ~> (pc = "fetch")

\* C9: a cycle gets to parsing, matching and notifying only on status 200;
\* with any other status it ends as a status error with nothing parsed,
\* nothing matched and nobody notified.
C9_StatusGate ==
    /\ (pc \in {"parse", "match", "notify"} \/ doc # NoDoc \/ matched)
        => status = 200
    /\ (status # 0 /\ status # 200) =>
            /\ pc = "return"
            /\ outcome = "status error"
            /\ doc = NoDoc
            /\ ~matched
            /\ notifyCalls = 0

\* C9's case: a 204 answer ended the cycle as a status error.
C9_Witness ==
    /\ pc = "return"
    /\ status = 204
    /\ outcome = "status error"
    /\ doc = NoDoc

\* C10: at most one call of checkWebsite is in progress, and it is while main
\* is inside it; a cycle makes at most one fetch and at most one notifier
\* call, the latter only after its own status 200, parse and whole-page match.
C10_SequentialNoRetry ==
    /\ inProgress <= 1
    /\ inProgress = 1 <=> pc \in CyclePositions
    /\ fetchAttempts <= 1
    /\ notifyCalls <= 1
    /\ notifyCalls = 1 =>
            /\ fetchAttempts = 1
            /\ outcome \in {"notified", "notify error"}
            /\ pc = "return" => (status = 200 /\ matched /\ BodyHasPhrase)

\* C10's case: a tick arrived while a cycle was about to notify, and waits.
C10_Witness ==
    /\ pc = "notify"
    /\ tickPending
    /\ inProgress = 1
    /\ fetchAttempts = 1

\* ---- C11: order of the extracted links
\* The selector list in the order the claim states it.
C11_SelectorOrder == <<"h1", "h2", "h3", "[class*='product']",
                       "[class*='item']", "[id*='product']">>

\* The discoveries of a URL: strategy, selector rank and element, as one number
\* that grows with the strategy first, the selector's rank next and the
\* element's document position last.
C11_Discoveries(u) ==
    {100 + s : s \in {e \in Elems(doc) :
        /\ IsAnchor(doc, e) /\ HasHref(doc, e)
        /\ Contains(ToLower(Text(doc, e)), Phrase)
        /\ resolveURL(config.WebsiteURL, doc[e].href) = u}}
    \cup {200 + 10 * r + s : <<r, s>> \in
        {t \in (1..Len(C11_SelectorOrder)) \X Elems(doc) :
            /\ Matches(doc, t[2], C11_SelectorOrder[t[1]])
            /\ Contains(ToLower(Text(doc, t[2])), Phrase)
            /\ findClosestLink(doc, t[2], config.WebsiteURL) = u}}
    \cup {300 + s : s \in {e \in Elems(doc) :
        /\ Contains(ToLower(DirectText(doc, e)), Phrase)
        /\ findClosestLink(doc, e, config.WebsiteURL) = u}}

\* The first discovery of a discovered URL.
C11_FirstDiscovery(u) ==
    CHOOSE k \in C11_Discoveries(u) : \A m \in C11_Discoveries(u) : k <= m

\* C11: the links of a notification are in the order of their first discovery:
\* direct anchors in document order, then the structural selectors in the
\* order h1, h2, h3, class contains "product", class contains "item", id
\* contains "product", each over its elements in document order, then the
\* direct-text scan in document order.
C11_DiscoveryOrder ==
    pc \in {"notify", "return"} =>
        /\ \A i \in 1..Len(links) : C11_Discoveries(links[i]) # {}
        /\ \A i, j \in 1..Len(links) :
            i < j => C11_FirstDiscovery(links[i]) < C11_FirstDiscovery(links[j])

\* Two matching headings of which the later one in the document is selected
\* first, each with a link of its own, are reported in selector order.
C11_Witness ==
    /\ pc = "return"
    /\ Len(links) = 2
    /\ \E x, y \in Elems(doc) :
        /\ x < y
        /\ doc[x].tag = "h2" /\ doc[y].tag = "h1"
        /\ findClosestLink(doc, y, config.WebsiteURL) = links[1]
        /\ findClosestLink(doc, x, config.WebsiteURL) = links[2]

\* ---- C12, C13: the closest-link lookup
\* The elements a cycle hands to findClosestLink: those a selector matches
\* with the phrase in their combined text, and those with it in their own text.
ExaminedElems ==
    {s \in Elems(doc) :
        \/ /\ \E r \in 1..Len(productSelectors) : Matches(doc, s, productSelectors[r])
           /\ Contains(ToLower(Text(doc, s)), Phrase)
        \/ Contains(ToLower(DirectText(doc, s)), Phrase)}

\* The resolution of anchor a's href, the empty string when a is no anchor
\* with an href.
AnchorLink(a) ==
    IF IsAnchor(doc, a) /\ HasHref(doc, a)
    THEN resolveURL(config.WebsiteURL, doc[a].href)
    ELSE EmptyStr

\* The ancestors of element s.
AncestorsOf(s) == SeqToSet(Parents(doc, s))

\* Step 2 has a link for s: an ancestor anchor whose href resolves.
AncestorAnchorLinks(s) ==
    {AnchorLink(p) : p \in AncestorsOf(s)} \ {EmptyStr}

\* Step 3 has a link for s: its first descendant anchor's href resolves.
DescendantLink(s) == AnchorLink(FirstAnchorIn(doc, s))

\* Step 4 has a link for s at ancestor p: p's first descendant anchor's href
\* resolves.
ContainerLinkAt(p) == AnchorLink(FirstAnchorIn(doc, p))

\* The ancestors of s at which step 4 has a link.
LinkedContainers(s) == {p \in AncestorsOf(s) : ContainerLinkAt(p) # EmptyStr}

\* The nearest of them: ancestors are numbered in document order, so the
\* nearest is the greatest.
NearestLinkedContainer(s) ==
    CHOOSE p \in LinkedContainers(s) : \A q \in LinkedContainers(s) : q <= p

\* The lookup for s comes to step 4.
ReachesContainerScan(s) ==
    /\ ~(IsAnchor(doc, s) /\ HasHref(doc, s))
    /\ AncestorAnchorLinks(s) = {}
    /\ DescendantLink(s) = EmptyStr

\* C12: when the closest-link lookup comes to the ancestor-container scan, it
\* returns a product URL if any ancestor's first descendant anchor resolves to
\* one, and otherwise the non-empty resolution at the nearest ancestor.
C12_ContainerProductPreference ==
    pc \in {"notify", "return"} =>
        \A s \in ExaminedElems :
            ReachesContainerScan(s) =>
                IF \E p \in LinkedContainers(s) : IsProductURL(ContainerLinkAt(p))
                THEN IsProductURL(findClosestLink(doc, s, config.WebsiteURL))
                ELSE IF LinkedContainers(s) # {}
                     THEN findClosestLink(doc, s, config.WebsiteURL)
                            = ContainerLinkAt(NearestLinkedContainer(s))
                     ELSE findClosestLink(doc, s, config.WebsiteURL) = EmptyStr

\* The nearest ancestor anchor of s whose href resolves.
NearestAncestorAnchor(s) ==
    CHOOSE p \in AncestorsOf(s) :
        /\ AnchorLink(p) # EmptyStr
        /\ \A q \in AncestorsOf(s) : AnchorLink(q) # EmptyStr => q <= p

\* C13: the closest-link lookup returns the link of the first of its four
\* steps that has one - the element itself, the nearest ancestor anchor, the
\* first descendant anchor, an ancestor's first descendant anchor - and the
\* empty string only when no step has one.
C13_FirstSuccessfulStep ==
    pc \in {"notify", "return"} =>
        \A s \in ExaminedElems :
            LET found == findClosestLink(doc, s, config.WebsiteURL)
            IN  IF AnchorLink(s) # EmptyStr THEN found = AnchorLink(s)
                ELSE IF AncestorAnchorLinks(s) # {}
                     THEN found = AnchorLink(NearestAncestorAnchor(s))
                ELSE IF DescendantLink(s) # EmptyStr THEN found = DescendantLink(s)
                ELSE IF LinkedContainers(s) # {}
                     THEN found \in {ContainerLinkAt(p) : p \in LinkedContainers(s)}
                ELSE found = EmptyStr

\* ---- C14: coverage of the structural scan
\* The URLs findLinksForText has collected when its three scans are over.
CollectedLinks == Candidates(doc, config.WebsiteURL, Phrase).linkMap

\* The combined text of element s holds the phrase.
TextHasPhrase(s) == Contains(ToLower(Text(doc, s)), Phrase)

\* No element's own text holds the phrase: it is split over elements.
PhraseIsSplit ==
    \A e \in Elems(doc) : ~Contains(ToLower(DirectText(doc, e)), Phrase)

\* Element s is a heading of level 1 to 3, or its class holds "product" or
\* "item", or its id holds "product".
StructuralElem(s) ==
    \/ doc[s].tag \in {"h1", "h2", "h3"}
    \/ AttrContains(doc[s].class, "product")
    \/ AttrContains(doc[s].class, "item")
    \/ AttrContains(doc[s].id, "product")

\* C14 as stated: every h1, h2 or h3 element, and every element whose class or
\* id holds "product" or "item", whose combined text holds the phrase has its
\* closest link, when non-empty, among the collected candidates - also when
\* it is selected only by an id holding "item" and the phrase is split over
\* child elements.
C14_StructuralCoverageWithItemId ==
    pc \in {"notify", "return"} =>
        \A s \in Elems(doc) :
            (StructuralElem(s) \/ AttrContains(doc[s].id, "item")) /\ TextHasPhrase(s)
                /\ findClosestLink(doc, s, config.WebsiteURL) # EmptyStr
            => findClosestLink(doc, s, config.WebsiteURL) \in CollectedLinks

\* C14 as the code has it: every h1, h2 or h3 element, and every element whose
\* class holds "product" or "item" or whose id holds "product", whose combined
\* text holds the phrase has its closest link, when non-empty, among the
\* collected candidates - also when the phrase is split over child elements.
C14_StructuralCoverage ==
    pc \in {"notify", "return"} =>
        \A s \in Elems(doc) :
            StructuralElem(s) /\ TextHasPhrase(s)
                /\ findClosestLink(doc, s, config.WebsiteURL) # EmptyStr
            => findClosestLink(doc, s, config.WebsiteURL) \in CollectedLinks

\* A cycle has extracted the link of an element that only its class, holding
\* "item", selects, from a page whose phrase is split over elements.
C14_Witness ==
    /\ pc = "return"
    /\ PhraseIsSplit
    /\ \E s \in Elems(doc) :
        /\ AttrContains(doc[s].class, "item")
        /\ doc[s].tag = "div" /\ doc[s].id = NoAttr
        /\ TextHasPhrase(s)
        /\ links = <<findClosestLink(doc, s, config.WebsiteURL)>>
        /\ sent = links

\* ---- C15: cycles are stateless
\* The response of this cycle is a 200 whose parsed body holds the phrase.
MatchingResponse == status = 200 /\ BodyHasPhrase

\* What a cycle hands to the notifier, from the configuration and the
\* document of its own response alone.
LinksFor(cfg, d) ==
    LET found == findLinksForText(d, cfg.WebsiteURL, ToLower(cfg.SearchText))
    IN  IF found = <<>> THEN <<cfg.WebsiteURL>> ELSE found

\* C15: whether a cycle calls the notifier, and with which links, is a function
\* of the configuration and the cycle's own response: a cycle whose response is
\* a 200 with the phrase in its body calls it exactly once, with the links of
\* that document, and any other cycle not at all - whatever earlier cycles
\* sent or failed to send.
C15_StatelessCycles ==
    pc = "return" =>
        /\ notifyCalls = (IF MatchingResponse THEN 1 ELSE 0)
        /\ sent = (IF MatchingResponse THEN LinksFor(config, doc) ELSE <<>>)

\* A later cycle has called the notifier with the very links an earlier cycle
\* had already delivered.
C15_Witness ==
    /\ pc = "return"
    /\ tickerCreated
    /\ MatchingResponse
    /\ notifyCalls = 1
    /\ prevNotification.outcome = "notified"
    /\ prevNotification.links = sent

====
